---- MODULE Spec2Model ----
(***************************************************************************)
(* Smart keyframe extraction of src/modal_video_processor.py:              *)
(* QUALITY_PRESETS, is_bad_frame, measure_sharpness, is_duplicate and the  *)
(* loop of extract_smart_keyframes (Spec, SpecGate, SpecDup), and the run  *)
(* of process_video around it (SpecRun): download, detect_scenes, the      *)
(* extraction as one call, the uploads.  The sampler of one scene is run   *)
(* on its own in SpecSampler.  The job store of                            *)
(* src/app/services/video_service.py, its worker thread and the request    *)
(* threads of src/app/routes.py are SpecJobs (SpecJobsFair with fairness). *)
(*                                                                         *)
(* Units.  Shot boundaries come from detect_scenes, whose timecodes are    *)
(* frame numbers divided by fps, so a shot is kept as the pair of frame    *)
(* numbers (start, end); its time in seconds is the frame number / fps.    *)
(* A sample time start + duration*(0.2 + 0.3*i) is kept in tenths of a     *)
(* frame: 10*start + (end-start)*(2 + 3*i).  Real arithmetic is exact      *)
(* here; the rounding of Python floats is not modelled.                    *)
(* Ratios are integers: black_ratio in hundredths, edge_ratio in           *)
(* thousandths.  A perceptual hash is the set of its one bits and the      *)
(* difference of two hashes is their Hamming distance.                     *)
(***************************************************************************)
EXTENDS Integers, Sequences, FiniteSets, TLC

\* ------------------------------------------------------------------ bounds
\* length of the video in frames
MaxVideoFrames == 6
\* largest max_frames
MaxCap == 2
\* environment faults per run: a failed cap.read() or cv2.imwrite, a check
\* that raises, a failed compute_phash, a frame count reported one short
MaxFaults == 1
\* hashes seen before a winner, when is_duplicate is called on its own
MaxSeen == 2
\* largest samples_per_scene, when the sampler is run on its own
MaxSamples == 4
\* frames an extraction hands to process_video, selected and rejected together
MaxRunFrames == 2

\* ------------------------------------------------------- program constants
\* the presets with the blur thresholds of strict and high exchanged
PresetsBlurExchanged ==
  [ strict |-> [ blur_threshold |-> 10, black_threshold |-> 75,
                 variance_threshold |-> 200, edge_threshold |-> 20,
                 contrast_threshold |-> 50, phash_threshold |-> 6 ],
    medium |-> [ blur_threshold |-> 25, black_threshold |-> 85,
                 variance_threshold |-> 100, edge_threshold |-> 10,
                 contrast_threshold |-> 30, phash_threshold |-> 8 ],
    high   |-> [ blur_threshold |-> 50, black_threshold |-> 92,
                 variance_threshold |-> 50, edge_threshold |-> 5,
                 contrast_threshold |-> 20, phash_threshold |-> 10 ] ]

QUALITY_PRESETS ==
  [ strict |-> [ blur_threshold |-> 50, black_threshold |-> 75,
                 variance_threshold |-> 200, edge_threshold |-> 20,
                 contrast_threshold |-> 50, phash_threshold |-> 6 ],
    medium |-> [ blur_threshold |-> 25, black_threshold |-> 85,
                 variance_threshold |-> 100, edge_threshold |-> 10,
                 contrast_threshold |-> 30, phash_threshold |-> 8 ],
    high   |-> [ blur_threshold |-> 10, black_threshold |-> 92,
                 variance_threshold |-> 50, edge_threshold |-> 5,
                 contrast_threshold |-> 20, phash_threshold |-> 10 ] ]

\* the fallback of QUALITY_PRESETS.get as the first preset, strict
PresetOrStrict(quality_mode) ==
  IF quality_mode \in DOMAIN QUALITY_PRESETS
    THEN QUALITY_PRESETS[quality_mode]
    ELSE QUALITY_PRESETS["strict"]

\* QUALITY_PRESETS.get(quality_mode, QUALITY_PRESETS["medium"])
PresetOf(quality_mode) ==
  IF quality_mode \in DOMAIN QUALITY_PRESETS
    THEN QUALITY_PRESETS[quality_mode]
    ELSE QUALITY_PRESETS["medium"]

\* the variance co-condition of the text/logo check (variance < 500)
TextVarianceLimit == 500
\* min_scene_duration = 0.3 s, in tenths of a second
MinSceneDurationTenths == 3
\* samples_per_scene = 3
SamplesPerScene == 3
\* scene_frame_count < 3 skips the scene
MinSceneFrames == 3
\* process_video(..., max_frames: int = 50, ...)
DefaultMaxFrames == 50


\* ---------------------------------------------------------- is_bad_frame
\* Python's None where a hash (a set of bit positions 1..64), a path (a
\* tuple) or a timestamp (a number >= 0) is expected
NoHash == {0}
NoPath == << >>
NoTimestamp == -1

\* A frame image: readable (cv2.imread returned an image), the five
\* measurements of the checks, and raise_at: 0 when no check raises, k in
\* 1..5 when the computation of check k (1 black, 2 variance, 3 edges,
\* 4 Laplacian, 5 histogram) raises an exception.
FailsBlack(f, preset) == f.black_ratio > preset.black_threshold
FailsVariance(f, preset) == f.variance < preset.variance_threshold
FailsEdges(f, preset) ==
  f.edge_ratio < preset.edge_threshold /\ f.variance < TextVarianceLimit
FailsBlur(f, preset) == f.sharpness < preset.blur_threshold
FailsContrast(f, preset) == f.non_zero < preset.contrast_threshold

\* the blur check moved in front of the others
is_bad_frame_blur_first(f, quality_mode) ==
  LET preset == PresetOf(quality_mode) IN
  IF ~f.readable THEN <<TRUE, "unreadable">>
  ELSE IF f.raise_at = 4 THEN <<FALSE, "check_error">>
  ELSE IF FailsBlur(f, preset) THEN <<TRUE, "blurry">>
  ELSE IF f.raise_at = 1 THEN <<FALSE, "check_error">>
  ELSE IF FailsBlack(f, preset) THEN <<TRUE, "black">>
  ELSE IF f.raise_at = 2 THEN <<FALSE, "check_error">>
  ELSE IF FailsVariance(f, preset) THEN <<TRUE, "solid_color">>
  ELSE IF f.raise_at = 3 THEN <<FALSE, "check_error">>
  ELSE IF FailsEdges(f, preset) THEN <<TRUE, "text_only">>
  ELSE IF f.raise_at = 5 THEN <<FALSE, "check_error">>
  ELSE IF FailsContrast(f, preset) THEN <<TRUE, "low_contrast">>
  ELSE <<FALSE, "OK">>

\* the except clause of lines 144-145 returning True (fail-closed)
is_bad_frame_fail_closed(f, quality_mode) ==
  LET preset == PresetOf(quality_mode) IN
  IF ~f.readable THEN <<TRUE, "unreadable">>
  ELSE IF f.raise_at = 1 THEN <<TRUE, "check_error">>
  ELSE IF FailsBlack(f, preset) THEN <<TRUE, "black">>
  ELSE IF f.raise_at = 2 THEN <<TRUE, "check_error">>
  ELSE IF FailsVariance(f, preset) THEN <<TRUE, "solid_color">>
  ELSE IF f.raise_at = 3 THEN <<TRUE, "check_error">>
  ELSE IF FailsEdges(f, preset) THEN <<TRUE, "text_only">>
  ELSE IF f.raise_at = 4 THEN <<TRUE, "check_error">>
  ELSE IF FailsBlur(f, preset) THEN <<TRUE, "blurry">>
  ELSE IF f.raise_at = 5 THEN <<TRUE, "check_error">>
  ELSE IF FailsContrast(f, preset) THEN <<TRUE, "low_contrast">>
  ELSE <<FALSE, "OK">>

is_bad_frame(f, quality_mode) ==
  LET preset == PresetOf(quality_mode) IN
  IF ~f.readable THEN <<TRUE, "unreadable">>
  ELSE IF f.raise_at = 1 THEN <<FALSE, "check_error">>
  ELSE IF FailsBlack(f, preset) THEN <<TRUE, "black">>
  ELSE IF f.raise_at = 2 THEN <<FALSE, "check_error">>
  ELSE IF FailsVariance(f, preset) THEN <<TRUE, "solid_color">>
  ELSE IF f.raise_at = 3 THEN <<FALSE, "check_error">>
  ELSE IF FailsEdges(f, preset) THEN <<TRUE, "text_only">>
  ELSE IF f.raise_at = 4 THEN <<FALSE, "check_error">>
  ELSE IF FailsBlur(f, preset) THEN <<TRUE, "blurry">>
  ELSE IF f.raise_at = 5 THEN <<FALSE, "check_error">>
  ELSE IF FailsContrast(f, preset) THEN <<TRUE, "low_contrast">>
  ELSE <<FALSE, "OK">>

\* measure_sharpness: 0 when the image does not load or the Laplacian
\* raises, else the Laplacian variance of the grey image.
measure_sharpness(f) ==
  IF ~f.readable THEN 0
  ELSE IF f.raise_at = 4 THEN 0
  ELSE f.sharpness

\* ----------------------------------------------------------- is_duplicate
\* imagehash difference: the number of differing bits
HashDistance(a, b) == Cardinality((a \ b) \cup (b \ a))

\* the comparison of line 163 as  <=
is_duplicate_inclusive(current_hash, seen_hashes, threshold) ==
  IF current_hash = NoHash THEN FALSE
  ELSE \E k \in 1..Len(seen_hashes) :
         /\ seen_hashes[k] # NoHash
         /\ HashDistance(current_hash, seen_hashes[k]) <= threshold

\* a None entry of seen_hashes matching every hash (no test of line 163
\* for None)
is_duplicate_none_matches(current_hash, seen_hashes, threshold) ==
  IF current_hash = NoHash THEN FALSE
  ELSE \E k \in 1..Len(seen_hashes) :
         \/ seen_hashes[k] = NoHash
         \/ HashDistance(current_hash, seen_hashes[k]) < threshold

is_duplicate(current_hash, seen_hashes, threshold) ==
  IF current_hash = NoHash THEN FALSE
  ELSE \E k \in 1..Len(seen_hashes) :
         /\ seen_hashes[k] # NoHash
         /\ HashDistance(current_hash, seen_hashes[k]) < threshold

\* ------------------------------------------------ inputs of the extraction
\* Durations of shots in frames, frame rates, and requested quality modes
\* ("ultra" is a name QUALITY_PRESETS does not have).
Durations == {2, 3}
FpsValues == {5, 10}
QualityModes == {"strict", "medium", "high", "ultra"}

\* Frame images a video may hold (see is_bad_frame for the fields).
Dark == [ readable |-> TRUE, black_ratio |-> 95, variance |-> 30,
          edge_ratio |-> 1, sharpness |-> 5, non_zero |-> 10, raise_at |-> 0 ]
Soft == [ readable |-> TRUE, black_ratio |-> 10, variance |-> 300,
          edge_ratio |-> 30, sharpness |-> 30, non_zero |-> 60, raise_at |-> 0 ]
Sharp == [ readable |-> TRUE, black_ratio |-> 10, variance |-> 600,
           edge_ratio |-> 30, sharpness |-> 80, non_zero |-> 60, raise_at |-> 0 ]
Glitch == [ readable |-> TRUE, black_ratio |-> 10, variance |-> 600,
            edge_ratio |-> 30, sharpness |-> 80, non_zero |-> 60, raise_at |-> 4 ]
\* a frame whose histogram raises: the gate lets it pass and its sharpness
\* is measured
Flaky == [ readable |-> TRUE, black_ratio |-> 10, variance |-> 600,
           edge_ratio |-> 30, sharpness |-> 80, non_zero |-> 60, raise_at |-> 5 ]
\* what cv2.imread gives for a file cv2.imwrite failed to create
Unwritten == [ readable |-> FALSE, black_ratio |-> 0, variance |-> 0,
               edge_ratio |-> 0, sharpness |-> 0, non_zero |-> 0, raise_at |-> 0 ]
Frames == {Dark, Soft, Sharp}
FaultyFrames == {Glitch, Flaky}

\* Perceptual hashes of winning frames: pairwise distances 3, 9 and 6.
Hashes == { {}, 1..3, 1..9 }

\* The shot lists detect_scenes can return: contiguous shots from frame 0.
RECURSIVE ScenesFrom(_, _)
ScenesFrom(start, room) ==
  { << >> } \cup
  UNION { { << [start |-> start, end |-> start + d] >> \o rest :
              rest \in ScenesFrom(start + d, room - d) } :
          d \in { d \in Durations : d <= room } }

SceneLists == ScenesFrom(0, MaxVideoFrames)

\* ------------------------------------------------------------- Python bits
\* a // b for a >= 0 and b # 0 (floor division)
PyFloorDiv(a, b) ==
  IF b > 0 THEN a \div b ELSE -((a + (-b) - 1) \div (-b))

\* seq[::step] for step # 0
PySlice(seq, step) ==
  LET n == Len(seq)
      idx == IF step > 0
               THEN { i \in 0..(n-1) : i % step = 0 }
               ELSE { i \in 0..(n-1) : (n - 1 - i) % (-step) = 0 }
      k == Cardinality(idx)
      at(j) == IF step > 0 THEN (j - 1) * step ELSE (n - 1) + (j - 1) * step
  IN [ j \in 1..k |-> seq[at(j) + 1] ]

\* ------------------------------------------------- extract_smart_keyframes
VARIABLES
  pc,                 \* "start", "loop", "sampling", "done", "raised"
  scenes, max_frames, quality_mode, fps, total_frames_count,   \* arguments, video
  valid_scenes, scene_idx,
  selected_frames, rejected_frames, seen_hashes, stats,
  sample_i, best_path, best_sharpness, rejected_in_scene,      \* per scene
  files,              \* frames_dir: path |-> temp path its image was written as
  written,            \* log: the candidates decoded and written, in order
  checked,            \* log: number of scenes that reached the cap check
  hashed,             \* log: the compute_phash calls, in order
  faults,             \* log: number of environment faults so far
  probe, answer,      \* argument and result of a function called on its own
  youtube,            \* process_video: is_youtube_url(video_url)
  dl,                 \* process_video: the download's result
  run_results,        \* process_video: its results dict
  frame_result,       \* process_video: what extract_smart_keyframes returned
  futures,            \* process_video: indices of the uploads not yet completed
  uploaded_selected, uploaded_rejected,
  uploaded_idx,       \* log: indices of the uploads that returned a url
  stages,             \* log: the stages process_video has started
  acquired, detection, \* log: how the download and the scene detection went
  jobs,               \* video_service: the in-memory job store
  worker,             \* video_service: the line the worker thread is at
  modal,              \* video_service: what the call of the Modal endpoint gave
  approver,           \* a request thread in approve_job_frames
  completer,          \* a request thread in complete_job
  reader              \* a request thread in get_pending_frames

vars == << pc, scenes, max_frames, quality_mode, fps, total_frames_count,
           valid_scenes, scene_idx, selected_frames, rejected_frames,
           seen_hashes, stats, sample_i, best_path, best_sharpness,
           rejected_in_scene, files, written, checked, hashed, faults,
           probe, answer, youtube, dl, run_results, frame_result, futures,
           uploaded_selected, uploaded_rejected, uploaded_idx, stages,
           acquired, detection, jobs, worker, modal, approver, completer,
           reader >>

inputs == << scenes, max_frames, quality_mode, fps, total_frames_count >>
results == << selected_frames, rejected_frames, seen_hashes, stats >>
locals == << sample_i, best_path, best_sharpness, rejected_in_scene >>
logs == << written, checked, hashed, faults >>
calls == << probe, answer >>
service == << jobs, worker, modal, approver, completer, reader >>
caller == << youtube, dl, run_results, frame_result, futures,
            uploaded_selected, uploaded_rejected, uploaded_idx, stages,
            acquired, detection, service >>

phash_threshold == PresetOf(quality_mode).phash_threshold

\* video_service before any job is started: jobs = {}
NoCount == -1
NoModalResult ==
  [ status |-> "none", selected_frames |-> << >>, rejected_frames |-> << >>,
    errors |-> << >> ]
NoCall == [ outcome |-> "none", result |-> NoModalResult ]
ReaderIdle ==
  [ pc |-> "idle", status |-> "none", selected_frames |-> << >>,
    rejected_frames |-> << >> ]
ServiceIdle ==
  /\ jobs = << >>
  /\ worker = "none"
  /\ modal = NoCall
  /\ approver = [ pc |-> "idle", count |-> 0 ]
  /\ completer = "idle"
  /\ reader = ReaderIdle

\* process_video at rest, while the extraction is run on its own
NoDownload == [ success |-> FALSE, error |-> "" ]
NoResult == [ selected |-> << >>, rejected |-> << >> ]
CallerIdle ==
  /\ youtube = FALSE /\ dl = NoDownload
  /\ run_results = [ status |-> "none" ]
  /\ frame_result = NoResult /\ futures = {}
  /\ uploaded_selected = << >> /\ uploaded_rejected = << >>
  /\ uploaded_idx = {}
  /\ stages = {} /\ acquired = "none" /\ detection = "none"
  /\ ServiceIdle

VideoFrames(sc) == IF sc = << >> THEN 0 ELSE sc[Len(sc)].end

Init ==
  /\ pc = "start"
  /\ scenes \in SceneLists
  /\ max_frames \in (-1)..MaxCap
  /\ quality_mode \in QualityModes
  /\ fps \in FpsValues
  /\ \E short \in {0, 1} :
       /\ short <= VideoFrames(scenes)
       /\ short <= MaxFaults
       /\ total_frames_count = VideoFrames(scenes) - short
       /\ faults = short
  /\ valid_scenes = << >>
  /\ scene_idx = 0
  /\ selected_frames = << >>
  /\ rejected_frames = << >>
  /\ seen_hashes = << >>
  /\ stats = [ total_scenes |-> 0, rejected |-> << >> ]
  /\ sample_i = 0
  /\ best_path = NoPath
  /\ best_sharpness = 0
  /\ rejected_in_scene = << >>
  /\ files = << >>
  /\ written = << >>
  /\ checked = 0
  /\ hashed = << >>
  /\ probe = "none"
  /\ answer = "none"
  /\ CallerIdle

\* the filter of line 209 with > in place of >=
LongerThanMin(s) == (s.end - s.start) * 10 > MinSceneDurationTenths * fps

\* s['end'] - s['start'] >= min_scene_duration, in seconds = frames / fps
LongEnough(s) == (s.end - s.start) * 10 >= MinSceneDurationTenths * fps

InitialRejected ==
  [ r \in {"black", "blurry", "duplicate", "text_only", "solid_color",
           "low_contrast", "other"} |-> 0 ]

\* lines 201-221: filter the short scenes, stride the list, set up the result
Begin ==
  /\ pc = "start"
  /\ LET filtered == SelectSeq(scenes, LongEnough)
         strided == Len(filtered) > max_frames * 2
         step == IF max_frames = 0 THEN 0
                 ELSE PyFloorDiv(Len(filtered), max_frames)
     IN IF strided /\ step = 0
          THEN \* ZeroDivisionError (max_frames = 0) or ValueError (step 0)
               /\ pc' = "raised"
               /\ UNCHANGED << valid_scenes, stats >>
          ELSE /\ pc' = "loop"
               /\ valid_scenes' = IF strided THEN PySlice(filtered, step)
                                  ELSE filtered
               /\ stats' = [ total_scenes |-> Len(valid_scenes'),
                             rejected |-> InitialRejected ]
  /\ UNCHANGED << inputs, scene_idx, selected_frames, rejected_frames,
                  seen_hashes, locals, files, logs, calls, caller >>

\* the loop body reading the first scene whatever the index
FirstScene == valid_scenes[1]

\* the loop reading the scenes from the last to the first
ReverseScene == valid_scenes[Len(valid_scenes) - scene_idx]

\* line 223: for scene_idx, scene in enumerate(valid_scenes)
scene == valid_scenes[scene_idx + 1]
scene_duration == scene.end - scene.start
\* the frame count as the number of frames times fps
FrameCountTimesFps == scene_duration * fps
\* int(scene_duration * fps), the duration being frames / fps
scene_frame_count == scene_duration

\* lines 231-237: sample times in tenths of a frame
SampleTime(s, i) == 10 * s.start + (s.end - s.start) * (2 + 3 * i)
\* the loop of lines 232-237 without the test of line 236
SamplePointsUnfiltered(s, samples_per_scene) ==
  [ j \in 1..samples_per_scene |-> SampleTime(s, j - 1) ]
\* the loop of lines 232-237 for range(samples_per_scene)
SamplePointsOf(s, samples_per_scene) ==
  SelectSeq([ j \in 1..samples_per_scene |-> SampleTime(s, j - 1) ],
            LAMBDA t : t < 10 * s.end)
SamplePoints(s) == SamplePointsOf(s, SamplesPerScene)
sample_points == SamplePoints(scene)
sample_time == sample_points[sample_i + 1]
\* int(sample_time * fps)
frame_num == sample_time \div 10
\* frames_dir / f"temp_{scene_idx}_{frame_num}.jpg" and the final names
TempPath(idx, num) == << "temp", idx, num >>
SelectedPath(n) == << "selected", n >>
RejectedPath(n) == << "rejected", n >>
temp_path == TempPath(scene_idx, frame_num)

\* os.rename(src, dst) on the directory fs
Rename(fs, src, dst) ==
  [ p \in (DOMAIN fs \ {src}) \cup {dst} |-> IF p = dst THEN fs[src] ELSE fs[p] ]

\* every gate rejection counted under the key "other"
CountRejectedAsOther(st, reason) ==
  [ st EXCEPT !.rejected.other = @ + 1 ]

\* stats["rejected"][reason] = stats["rejected"].get(reason, 0) + 1
CountRejected(st, reason) ==
  [ st EXCEPT !.rejected =
      [ r \in DOMAIN st.rejected \cup {reason} |->
          IF r = reason
            THEN (IF r \in DOMAIN st.rejected THEN st.rejected[r] ELSE 0) + 1
            ELSE st.rejected[r] ] ]

\* lines 260-263: is_bad_frame on the written file, counted in stats
QualityGate(f, mode, st) ==
  LET verdict == is_bad_frame(f, mode) IN
  [ is_bad |-> verdict[1], reason |-> verdict[2],
    stats |-> IF verdict[1] THEN CountRejected(st, verdict[2]) ELSE st ]

RejectedEntry(path, reason, s, timestamp) ==
  [ path |-> path, reason |-> reason, scene_start |-> s.start,
    scene_end |-> s.end, timestamp |-> timestamp ]

\* lines 223-228: the for statement and the frame-count test
SkipScene ==
  /\ pc = "loop"
  /\ scene_idx < Len(valid_scenes)
  /\ scene_frame_count < MinSceneFrames
  /\ scene_idx' = scene_idx + 1
  /\ UNCHANGED << pc, inputs, valid_scenes, results, locals, files, logs,
                  calls, caller >>

EnterScene ==
  /\ pc = "loop"
  /\ scene_idx < Len(valid_scenes)
  /\ ~(scene_frame_count < MinSceneFrames)
  /\ pc' = "sampling"
  /\ sample_i' = 0
  /\ best_path' = NoPath
  /\ best_sharpness' = 0
  /\ rejected_in_scene' = << >>
  /\ UNCHANGED << inputs, valid_scenes, scene_idx, results, files, logs,
                  calls, caller >>

\* the loop is exhausted: cap.release() and return
Return ==
  /\ pc = "loop"
  /\ scene_idx >= Len(valid_scenes)
  /\ pc' = "done"
  /\ UNCHANGED << inputs, valid_scenes, scene_idx, results, locals, files,
                  logs, calls, caller >>

Sampling == pc = "sampling" /\ sample_i < Len(sample_points)

\* lines 246-248: the frame number is past the frame count
SampleBeyondEnd ==
  /\ Sampling
  /\ frame_num >= total_frames_count
  /\ sample_i' = sample_i + 1
  /\ UNCHANGED << pc, inputs, valid_scenes, scene_idx, results, best_path,
                  best_sharpness, rejected_in_scene, files, logs, calls, caller >>

\* lines 250-254: cap.read() gives no frame
SampleReadFails ==
  /\ Sampling
  /\ ~(frame_num >= total_frames_count)
  /\ faults < MaxFaults
  /\ faults' = faults + 1
  /\ sample_i' = sample_i + 1
  /\ UNCHANGED << pc, inputs, valid_scenes, scene_idx, results, best_path,
                  best_sharpness, rejected_in_scene, files, written, checked,
                  hashed, calls, caller >>

\* the comparison of line 276 inverted
Duller(sharpness, best) == sharpness < best

\* line 276: if sharpness > best_sharpness
Sharper(sharpness, best) == sharpness > best

\* the previous best is forgotten when a sharper frame replaces it
PreviousBestDropped(rejs, best, fs, s) == rejs

\* lines 277-284: the previous best moves to the scene's rejected frames
PreviousBestRejected(rejs, best, fs, s) ==
  IF best # NoPath /\ best \in DOMAIN fs
    THEN Append(rejs, RejectedEntry(best, "not_sharpest", s, NoTimestamp))
    ELSE rejs

\* lines 256-294 for a decoded frame f; stored says whether cv2.imwrite
\* created the file
Candidate(f, stored) ==
  LET image == IF stored THEN f ELSE Unwritten
      gate == QualityGate(image, quality_mode, stats)
      is_bad == gate.is_bad
      reason == gate.reason
      sharpness == measure_sharpness(image)
      fs == IF stored
              THEN [ p \in DOMAIN files \cup {temp_path} |->
                       IF p = temp_path THEN temp_path ELSE files[p] ]
              ELSE files
  IN
  /\ Sampling
  /\ ~(frame_num >= total_frames_count)
  /\ files' = fs
  /\ written' = IF stored
                  THEN Append(written, [ path |-> temp_path,
                                         scene_idx |-> scene_idx,
                                         frame |-> f ])
                  ELSE written
  /\ sample_i' = sample_i + 1
  /\ IF is_bad
       THEN /\ stats' = gate.stats
            /\ rejected_in_scene' =
                 Append(rejected_in_scene,
                        RejectedEntry(temp_path, reason, scene, sample_time))
            /\ UNCHANGED << best_path, best_sharpness >>
       ELSE /\ stats' = gate.stats
            /\ IF Sharper(sharpness, best_sharpness)
                 THEN /\ rejected_in_scene' =
                           PreviousBestRejected(rejected_in_scene, best_path,
                                                fs, scene)
                      /\ best_sharpness' = sharpness
                      /\ best_path' = temp_path
                 ELSE /\ rejected_in_scene' =
                           Append(rejected_in_scene,
                                  RejectedEntry(temp_path, "not_sharpest",
                                                scene, NoTimestamp))
                      /\ UNCHANGED << best_path, best_sharpness >>
  /\ UNCHANGED << pc, inputs, valid_scenes, scene_idx, selected_frames,
                  rejected_frames, seen_hashes, checked, hashed, calls, caller >>

\* a frame that is decoded, written and checked without a fault
SampleFrame ==
  /\ \E f \in Frames : Candidate(f, TRUE)
  /\ UNCHANGED faults

\* a frame one of whose checks raises
SampleCheckRaises ==
  /\ faults < MaxFaults
  /\ faults' = faults + 1
  /\ \E f \in FaultyFrames : Candidate(f, TRUE)

\* cv2.imwrite does not create the file
SampleWriteFails ==
  /\ faults < MaxFaults
  /\ faults' = faults + 1
  /\ Candidate(Sharp, FALSE)

\* lines 322-329: rename the rejected frames of this scene that exist
RECURSIVE RenameRejected(_, _, _)
RenameRejected(rejs, fs, out) ==
  IF rejs = << >> THEN [ files |-> fs, rejected |-> out ]
  ELSE LET rej == Head(rejs)
           new_path == RejectedPath(Len(out))
       IN IF rej.path \in DOMAIN fs
            THEN RenameRejected(Tail(rejs), Rename(fs, rej.path, new_path),
                   Append(out, [ path |-> new_path, reason |-> rej.reason,
                                 scene_start |-> rej.scene_start,
                                 scene_end |-> rej.scene_end,
                                 timestamp |-> rej.timestamp,
                                 selected |-> FALSE ]))
            ELSE RenameRejected(Tail(rejs), fs, out)

\* the cap test as  > max_frames
CapReachedStrictly(selected) == Len(selected) > max_frames

\* lines 331-333: if len(selected_frames) >= max_frames: break
CapReached(selected) == Len(selected) >= max_frames

\* lines 322-333, the end of the loop body, given the scene's rejected
\* entries, the directory and the selected list after the duplicate check
EndScene(rejs, fs, selected) ==
  LET done == RenameRejected(rejs, fs, rejected_frames) IN
  /\ files' = done.files
  /\ rejected_frames' = done.rejected
  /\ selected_frames' = selected
  /\ checked' = checked + 1
  /\ IF CapReached(selected)
       THEN pc' = "done" /\ scene_idx' = scene_idx
       ELSE pc' = "loop" /\ scene_idx' = scene_idx + 1

Finishing == pc = "sampling" /\ ~(sample_i < Len(sample_points))

\* line 297: if best_path and best_sharpness > 0
HasWinner == best_path # NoPath /\ best_sharpness > 0

\* line 297 false: no good frame in the scene
FinishNoWinner ==
  /\ Finishing
  /\ ~HasWinner
  /\ EndScene(rejected_in_scene, files, selected_frames)
  /\ UNCHANGED << inputs, valid_scenes, seen_hashes, stats, locals, written,
                  hashed, faults, calls, caller >>

\* line 298: compute_phash(best_path) gives current_hash
Hashed(current_hash) ==
  /\ current_hash = NoHash => faults < MaxFaults
  /\ faults' = faults + (IF current_hash = NoHash THEN 1 ELSE 0)
  /\ hashed' = Append(hashed, [ path |-> best_path, hash |-> current_hash,
                                seen |-> Len(seen_hashes) ])

\* a duplicate winner labelled like the frames it beat
DuplicateAsNotSharpest(path, s) ==
  RejectedEntry(path, "not_sharpest", s, NoTimestamp)

\* a duplicate winner labelled with a word of its own
DuplicateAsSimilar(path, s) ==
  RejectedEntry(path, "similar", s, NoTimestamp)

\* lines 302-307: the entry of a winner that is a duplicate
DuplicateEntry(path, s) == RejectedEntry(path, "duplicate", s, NoTimestamp)

\* lines 314-320: the entry of a winner that is kept
SelectedEntry(path, s, sharpness) ==
  [ path |-> path, scene_start |-> s.start, scene_end |-> s.end,
    sharpness |-> sharpness, selected |-> TRUE ]

\* lines 298-307: the winner is a duplicate of a seen frame
FinishDuplicate ==
  /\ Finishing
  /\ HasWinner
  /\ \E current_hash \in Hashes \cup {NoHash} :
       /\ Hashed(current_hash)
       /\ is_duplicate(current_hash, seen_hashes, phash_threshold)
       /\ stats' = [ stats EXCEPT !.rejected.duplicate = @ + 1 ]
       /\ EndScene(Append(rejected_in_scene, DuplicateEntry(best_path, scene)),
                   files, selected_frames)
  /\ UNCHANGED << inputs, valid_scenes, seen_hashes, locals, written, calls, caller >>

\* lines 298-300 and 308-320: the winner is kept
FinishSelected ==
  /\ Finishing
  /\ HasWinner
  /\ \E current_hash \in Hashes \cup {NoHash} :
       /\ Hashed(current_hash)
       /\ ~is_duplicate(current_hash, seen_hashes, phash_threshold)
       /\ LET final_path == SelectedPath(Len(selected_frames)) IN
          IF best_path \in DOMAIN files
            THEN /\ seen_hashes' = Append(seen_hashes, current_hash)
                 /\ EndScene(rejected_in_scene,
                             Rename(files, best_path, final_path),
                             Append(selected_frames,
                                    SelectedEntry(final_path, scene,
                                                  best_sharpness)))
            ELSE \* os.rename raises FileNotFoundError
                 /\ pc' = "raised"
                 /\ UNCHANGED << scene_idx, selected_frames, rejected_frames,
                                 seen_hashes, files, checked >>
  /\ UNCHANGED << inputs, valid_scenes, stats, locals, written, calls, caller >>

\* line 344: 'quality_mode': quality_mode, the argument as it was passed
ReturnedQualityMode == quality_mode
\* line 201: the preset the run works with
PresetApplied == PresetOf(quality_mode)

Next ==
  \/ Begin
  \/ SkipScene
  \/ EnterScene
  \/ Return
  \/ SampleBeyondEnd
  \/ SampleReadFails
  \/ SampleFrame
  \/ SampleCheckRaises
  \/ SampleWriteFails
  \/ FinishNoWinner
  \/ FinishDuplicate
  \/ FinishSelected

Spec == Init /\ [][Next]_vars

\* ------------------------------------------ the functions called on their own
\* the extraction at rest, while a function is called on its own
Idle ==
  /\ scenes = << >> /\ max_frames = 0 /\ quality_mode = "medium" /\ fps = 5
  /\ total_frames_count = 0 /\ valid_scenes = << >> /\ scene_idx = 0
  /\ selected_frames = << >> /\ rejected_frames = << >>
  /\ seen_hashes = << >>
  /\ stats = [ total_scenes |-> 0, rejected |-> InitialRejected ]
  /\ sample_i = 0 /\ best_path = NoPath /\ best_sharpness = 0
  /\ rejected_in_scene = << >> /\ files = << >> /\ written = << >>
  /\ checked = 0 /\ hashed = << >> /\ faults = 0

extraction == << inputs, valid_scenes, scene_idx, results, locals, files,
                 logs >>

\* Frame images around every threshold of the three presets.
GridFrames ==
  [ readable : {TRUE}, black_ratio : {75, 80, 92, 95},
    variance : {40, 50, 100, 200, 500}, edge_ratio : {4, 5, 10, 20},
    sharpness : {9, 10, 25, 50}, non_zero : {19, 20, 30, 50},
    raise_at : 0..5 ] \cup {Unwritten}

\* The mode names a function is called with on its own: the requested modes
\* and two more names QUALITY_PRESETS does not have (the keys are matched
\* exactly, so "STRICT" is none of them).
GateModes == QualityModes \cup {"", "STRICT"}

InitGate ==
  /\ Idle
  /\ pc = "call_gate"
  /\ probe \in GridFrames
  /\ answer = "none"
  /\ CallerIdle

\* is_bad_frame and the count of lines 261-263, under every quality mode
CallQualityGate ==
  /\ pc = "call_gate"
  /\ answer' = [ m \in GateModes |-> QualityGate(probe, m, stats) ]
  /\ pc' = "returned"
  /\ UNCHANGED << extraction, probe, caller >>

SpecGate == InitGate /\ [][CallQualityGate]_vars

\* A winner's hash and the hashes seen before it.
SeenLists == UNION { [1..n -> Hashes \cup {NoHash}] : n \in 0..MaxSeen }

InitDup ==
  /\ Idle
  /\ pc = "call_dup"
  /\ probe \in [ current_hash : Hashes \cup {NoHash}, seen_hashes : SeenLists ]
  /\ answer = "none"
  /\ CallerIdle

\* is_duplicate under the phash_threshold of every quality mode
CallIsDuplicate ==
  /\ pc = "call_dup"
  /\ answer' = [ m \in GateModes |->
                    is_duplicate(probe.current_hash, probe.seen_hashes,
                                 PresetOf(m).phash_threshold) ]
  /\ pc' = "returned"
  /\ UNCHANGED << extraction, probe, caller >>

SpecDup == InitDup /\ [][CallIsDuplicate]_vars

\* A shot of positive duration within the video, and a sample count.
SamplerShots ==
  { s \in [ start : 0..MaxVideoFrames, end : 0..MaxVideoFrames ] :
      s.start < s.end }

InitSampler ==
  /\ Idle
  /\ pc = "call_sampler"
  /\ probe \in [ scene : SamplerShots, samples_per_scene : 0..MaxSamples ]
  /\ answer = "none"
  /\ CallerIdle

\* lines 230-237: the sample points of one scene
CallSampler ==
  /\ pc = "call_sampler"
  /\ answer' = SamplePointsOf(probe.scene, probe.samples_per_scene)
  /\ pc' = "returned"
  /\ UNCHANGED << extraction, probe, caller >>

SpecSampler == InitSampler /\ [][CallSampler]_vars

\* ------------------------------------------------------------ process_video
\* the quality_mode arguments of a run: a preset name and an unknown name
RequestedModes == {"strict", "ultra"}

\* lines 552-562: the results dict, and the call's arguments
InitRun ==
  /\ pc = "run_start"
  /\ quality_mode \in RequestedModes
  /\ max_frames \in {0, DefaultMaxFrames}
  /\ youtube \in BOOLEAN
  /\ fps \in FpsValues
  /\ scenes = << >> /\ total_frames_count = 0
  /\ valid_scenes = << >> /\ scene_idx = 0
  /\ selected_frames = << >> /\ rejected_frames = << >>
  /\ seen_hashes = << >>
  /\ stats = [ total_scenes |-> 0, rejected |-> InitialRejected ]
  /\ sample_i = 0 /\ best_path = NoPath /\ best_sharpness = 0
  /\ rejected_in_scene = << >> /\ files = << >> /\ written = << >>
  /\ checked = 0 /\ hashed = << >> /\ faults = 0
  /\ probe = "none" /\ answer = "none"
  /\ dl = NoDownload
  /\ run_results = [ status |-> "processing", quality_mode |-> quality_mode,
                     scenes |-> 0, selected_frames |-> << >>,
                     rejected_frames |-> << >>, errors |-> << >> ]
  /\ frame_result = NoResult /\ futures = {}
  /\ uploaded_selected = << >> /\ uploaded_rejected = << >>
  /\ uploaded_idx = {}
  /\ stages = {} /\ acquired = "none" /\ detection = "none"
  /\ ServiceIdle

\* what the extraction works on, while process_video does something else
video == << scenes, fps, total_frames_count >>
workspace == << valid_scenes, scene_idx, results, locals, files, logs, calls >>
uploads == << futures, uploaded_selected, uploaded_rejected, uploaded_idx >>

\* results["errors"].append(reason); results["status"] = "failed"; return results
Failed(res, reason) ==
  [ res EXCEPT !.errors = Append(@, reason), !.status = "failed" ]

\* lines 564-567: an unknown quality mode becomes medium
Validate ==
  /\ pc = "run_start"
  /\ pc' = "run_download"
  /\ IF quality_mode \notin DOMAIN QUALITY_PRESETS
       THEN /\ quality_mode' = "medium"
            /\ run_results' = [ run_results EXCEPT !.quality_mode = "medium" ]
       ELSE UNCHANGED << quality_mode, run_results >>
  /\ UNCHANGED << max_frames, video, workspace, service, youtube, dl,
                  frame_result, uploads, stages, acquired, detection >>

\* How a download can go. For a YouTube URL (download_youtube): RapidAPI
\* succeeds, or it fails (its exceptions are caught) and yt-dlp exits 0, exits
\* non-zero with or without text on stderr, or outlives timeout=300. For any
\* other URL: the GET answers 200, answers another status, or raises
\* (connection error, timeout=120).
DownloadOutcomes ==
  IF youtube
    THEN {"rapidapi_ok", "ytdlp_ok", "ytdlp_error", "ytdlp_silent",
          "ytdlp_timeout"}
    ELSE {"http_200", "http_status", "http_exception"}

\* subprocess.TimeoutExpired and the httpx exceptions are caught nowhere
DownloadRaises(outcome) == outcome \in {"ytdlp_timeout", "http_exception"}

\* the dl dict: {"success": True} or {"error": text}; error "" also stands
\* for a dict without the key, as dl.get("error") reads both the same
DownloadResult(outcome) ==
  CASE outcome \in {"rapidapi_ok", "ytdlp_ok", "http_200"} ->
         [ success |-> TRUE, error |-> "" ]
    [] outcome = "ytdlp_error" ->
         [ success |-> FALSE, error |-> "ERROR: Video unavailable" ]
    [] outcome = "ytdlp_silent" ->
         [ success |-> FALSE, error |-> "" ]
    [] outcome = "http_status" ->
         [ success |-> FALSE, error |-> "HTTP 404" ]

\* lines 569-588: download, and fail the run if dl.get("error")
Download ==
  /\ pc = "run_download"
  /\ stages' = stages \cup {"download"}
  /\ \E outcome \in DownloadOutcomes :
       /\ acquired' = outcome
       /\ IF DownloadRaises(outcome)
            THEN /\ pc' = "raised"
                 /\ UNCHANGED << dl, run_results >>
            ELSE /\ dl' = DownloadResult(outcome)
                 /\ IF dl'.error # ""
                      THEN /\ run_results' = Failed(run_results, dl'.error)
                           /\ pc' = "run_done"
                      ELSE /\ pc' = "run_detect"
                           /\ UNCHANGED run_results
  /\ UNCHANGED << quality_mode, max_frames, video, workspace, service,
                  youtube, frame_result, uploads, detection >>

\* The file at video_path: whether scenedetect can decode it, and the shots
\* it finds in it. The work directory is kept between runs of one URL, so the
\* file need not be the one this run downloaded.
VideoFiles == [ decodable : BOOLEAN, cuts : SceneLists ]

\* lines 172-179: the shots found, or [] when detect raises
detect_scenes(file) == IF file.decodable THEN file.cuts ELSE << >>

\* the test of line 600 as one that never fails the run
NoScenesNever(sc) == FALSE

\* line 600: if not scenes
NoScenes(sc) == sc = << >>

\* lines 593-603: scene detection, and fail the run without scenes
Detect ==
  /\ pc = "run_detect"
  /\ stages' = stages \cup {"detect"}
  /\ \E file \in VideoFiles :
       /\ detection' = IF ~file.decodable THEN "undecodable"
                       ELSE IF file.cuts = << >> THEN "no_cuts" ELSE "cuts"
       /\ scenes' = detect_scenes(file)
       /\ total_frames_count' = VideoFrames(scenes')
  /\ LET counted == [ run_results EXCEPT !.scenes = Len(scenes') ] IN
       IF NoScenes(scenes')
         THEN /\ run_results' = Failed(counted, "No scenes")
              /\ pc' = "run_done"
         ELSE /\ run_results' = counted
              /\ pc' = "run_extract"
  /\ UNCHANGED << quality_mode, max_frames, fps, workspace, service,
                  youtube, dl, frame_result, uploads, acquired >>

\* extract_smart_keyframes as process_video sees it: one call that raises or
\* returns {'selected': ..., 'rejected': ...}. Lines 201-216, as in Begin:
RunFiltered == SelectSeq(scenes, LongEnough)
RunStrided == Len(RunFiltered) > max_frames * 2
RunStep ==
  IF max_frames = 0 THEN 0 ELSE PyFloorDiv(Len(RunFiltered), max_frames)
ExtractionRaises == RunStrided /\ RunStep = 0
RunValidScenes ==
  IF RunStrided THEN PySlice(RunFiltered, RunStep) ELSE RunFiltered

\* what a sampled scene adds to the two lists: a winner, a rejected
\* candidate, both, or nothing (no frame could be read); the scene's further
\* rejected candidates are left out, one standing for them
SceneYields == {"nothing", "selected", "rejected", "both"}

\* lines 223-331: the lists built scene by scene, up to the cap
RECURSIVE Extracted(_, _, _)
Extracted(vs, sel, rej) ==
  IF vs = << >> THEN { [ selected |-> sel, rejected |-> rej ] }
  ELSE
    LET s == Head(vs) IN
    IF s.end - s.start < MinSceneFrames THEN Extracted(Tail(vs), sel, rej)
    ELSE
      UNION {
        LET won == y \in {"selected", "both"}
            lost == y \in {"rejected", "both"}
            sel2 == IF won
                      THEN Append(sel, SelectedEntry(SelectedPath(Len(sel)), s, 1))
                      ELSE sel
            rej2 == IF lost
                      THEN Append(rej, [ path |-> RejectedPath(Len(rej)),
                                         reason |-> "blurry",
                                         scene_start |-> s.start,
                                         scene_end |-> s.end,
                                         timestamp |-> SampleTime(s, 0),
                                         selected |-> FALSE ])
                      ELSE rej
        IN IF Len(sel2) + Len(rej2) > MaxRunFrames THEN {}
           ELSE IF CapReached(sel2)
             THEN { [ selected |-> sel2, rejected |-> rej2 ] }
             ELSE Extracted(Tail(vs), sel2, rej2)
        : y \in SceneYields }

\* the test of line 619 on the selected list alone
NoFramesSelected(sel, rej) == sel = << >>

\* line 619: if not selected_frames and not rejected_frames
NoFrames(sel, rej) == sel = << >> /\ rej = << >>

\* lines 605-622: frame extraction, and fail the run without any frame
Extract ==
  /\ pc = "run_extract"
  /\ stages' = stages \cup {"extract"}
  /\ IF ExtractionRaises
       THEN /\ pc' = "raised"
            /\ UNCHANGED << frame_result, run_results >>
       ELSE \E res \in Extracted(RunValidScenes, << >>, << >>) :
              /\ frame_result' = res
              /\ IF NoFrames(res.selected, res.rejected)
                   THEN /\ run_results' = Failed(run_results, "No frames extracted")
                        /\ pc' = "run_done"
                   ELSE /\ pc' = "run_upload"
                        /\ UNCHANGED run_results
  /\ UNCHANGED << quality_mode, max_frames, video, workspace, service,
                  youtube, dl, uploads, acquired, detection >>

\* lines 624-640: one upload submitted per frame, selected frames first
Submit ==
  /\ pc = "run_upload"
  /\ pc' = "run_uploading"
  /\ stages' = stages \cup {"upload"}
  /\ futures' =
       0..(Len(frame_result.selected) + Len(frame_result.rejected) - 1)
  /\ uploaded_selected' = << >>
  /\ uploaded_rejected' = << >>
  /\ uploaded_idx' = {}
  /\ UNCHANGED << quality_mode, max_frames, video, workspace, service,
                  youtube, dl, run_results, frame_result, acquired,
                  detection >>

\* line 659 without the shift by the number of selected frames
RejIdxUnshifted(idx, selected) == idx

\* line 659: rej_idx = idx - len(selected_frames)
RejIdx(idx, selected) == idx - Len(selected)

\* lines 648 and 660: list[i] if i < len(list) else None, None being << >>
FrameData(list, i) == IF i < Len(list) THEN << list[i + 1] >> ELSE << >>

\* lines 641-668: an upload completes, in any order, with a url or an error
UploadCompletes ==
  /\ pc = "run_uploading"
  /\ \E idx \in futures, has_url \in BOOLEAN :
       LET is_selected == idx < Len(frame_result.selected)
           frame_data ==
             IF is_selected
               THEN FrameData(frame_result.selected, idx)
               ELSE FrameData(frame_result.rejected,
                              RejIdx(idx, frame_result.selected))
       IN
       /\ futures' = futures \ {idx}
       /\ uploaded_idx' = IF has_url THEN uploaded_idx \cup {idx}
                          ELSE uploaded_idx
       /\ IF has_url /\ is_selected /\ frame_data # << >>
            THEN uploaded_selected' = Append(uploaded_selected,
                   [ url |-> << "url", idx >>,
                     scene_start |-> frame_data[1].scene_start,
                     scene_end |-> frame_data[1].scene_end,
                     sharpness |-> frame_data[1].sharpness,
                     selected |-> TRUE ])
            ELSE UNCHANGED uploaded_selected
       /\ IF has_url /\ ~is_selected /\ frame_data # << >>
            THEN uploaded_rejected' = Append(uploaded_rejected,
                   [ url |-> << "url", idx >>,
                     scene_start |-> frame_data[1].scene_start,
                     scene_end |-> frame_data[1].scene_end,
                     reason |-> frame_data[1].reason,
                     selected |-> FALSE ])
            ELSE UNCHANGED uploaded_rejected
  /\ UNCHANGED << pc, quality_mode, max_frames, video, workspace, service,
                  youtube, dl, run_results, frame_result, stages, acquired,
                  detection >>

\* lines 672-681: the frames are returned for approval
Finish ==
  /\ pc = "run_uploading"
  /\ futures = {}
  /\ pc' = "run_done"
  /\ run_results' = [ run_results EXCEPT
                        !.selected_frames = uploaded_selected,
                        !.rejected_frames = uploaded_rejected,
                        !.status = "pending_approval" ]
  /\ UNCHANGED << quality_mode, max_frames, video, workspace, service,
                  youtube, dl, frame_result, uploads, stages, acquired,
                  detection >>

NextRun ==
  \/ Validate
  \/ Download
  \/ Detect
  \/ Extract
  \/ Submit
  \/ UploadCompletes
  \/ Finish

SpecRun == InitRun /\ [][NextRun]_vars

\* ------------------------------------------------------------ video_service
\* src/app/services/video_service.py: the job store, the worker thread of a
\* job and the request threads that read and write the store. Every
\* statement that reads or writes jobs[job_id] is a step of its thread. The
\* fields video_url, quality_mode, video_id and user_id of a job are written
\* once, with the job, and are left out.

\* job_id = str(uuid.uuid4())
JobId == "job"

\* lines 53-64: the job as start_video_processing stores it
NewJob ==
  [ status |-> "queued", progress |-> 0,
    message |-> "Queued for cloud processing...",
    selected_frames |-> << >>, rejected_frames |-> << >>,
    result |-> NoModalResult, approved_count |-> NoCount ]

\* the JSON bodies the Modal endpoint can answer with status 200
ModalResults ==
  { [ status |-> "pending_approval", selected_frames |-> << "url_0" >>,
      rejected_frames |-> << "url_1" >>, errors |-> << >> ],
    [ status |-> "pending_approval", selected_frames |-> << >>,
      rejected_frames |-> << >>, errors |-> << >> ],
    [ status |-> "failed", selected_frames |-> << >>,
      rejected_frames |-> << >>, errors |-> << "No scenes" >> ],
    [ status |-> "completed", selected_frames |-> << >>,
      rejected_frames |-> << >>, errors |-> << >> ] }

\* lines 116-130: the POST raises (httpx timeout after 600 s, connection
\* error), answers another status than 200, or answers 200 with a body
ModalCalls ==
  { [ outcome |-> o, result |-> NoModalResult ] : o \in {"timeout", "http_500"} }
    \cup { [ outcome |-> "ok", result |-> r ] : r \in ModalResults }

\* the count argument of approve_job_frames
Counts == {1, 2}

InitJobs ==
  /\ Idle
  /\ pc = "service"
  /\ probe = "none" /\ answer = "none"
  /\ CallerIdle

others == << pc, extraction, calls, youtube, dl, run_results, frame_result,
             uploads, stages, acquired, detection >>

\* jobs[job_id][field] = value
SetJob(field, value) == jobs' = [ jobs EXCEPT ![JobId][field] = value ]

\* lines 25-71: the job is stored and its worker thread started
start_video_processing ==
  /\ JobId \notin DOMAIN jobs
  /\ jobs' = [ j \in {JobId} |-> NewJob ]
  /\ worker' = "line_100"
  /\ UNCHANGED << modal, approver, completer, reader, others >>

\* The statements of _process_with_modal that write a text to the store:
\* the line, the field, the text and the line that follows.
WorkerTexts ==
  { << "line_100", "status", "processing", "line_101" >>,
    << "line_102", "message", "Starting cloud processing...", "line_112" >>,
    << "line_112", "message", "Sending to Modal cloud...", "line_113" >>,
    << "line_139", "status", "pending_approval", "line_140" >>,
    << "line_141", "message", "Ready for approval", "line_142" >>,
    << "line_147", "status", "completed", "line_148" >>,
    << "line_149", "message", "Processing complete", "line_150" >>,
    << "line_155", "status", "failed", "line_156" >>,
    << "line_156", "message", "error_msg", "returned" >> }

\* lines 100, 102, 112, 139, 141, 147, 149, 155, 156
WorkerWritesText ==
  /\ \E w \in WorkerTexts :
       /\ worker = w[1]
       /\ SetJob(w[2], w[3])
       /\ worker' = w[4]
  /\ UNCHANGED << modal, approver, completer, reader, others >>

\* the statements that write the progress: the line, the value, the next line
WorkerProgress ==
  { << "line_101", 10, "line_102" >>, << "line_113", 20, "line_116" >>,
    << "line_140", 100, "line_141" >>, << "line_148", 100, "line_149" >> }

\* lines 101, 113, 140, 148
WorkerWritesProgress ==
  /\ \E w \in WorkerProgress :
       /\ worker = w[1]
       /\ SetJob("progress", w[2])
       /\ worker' = w[3]
  /\ UNCHANGED << modal, approver, completer, reader, others >>

\* the worker calling the endpoint again when the call raised
AfterCallRetries(call) ==
  IF call.outcome # "ok" THEN "line_116"
  ELSE IF call.result.status = "failed" THEN "line_155"
  ELSE IF call.result.status = "pending_approval" THEN "line_139"
  ELSE "line_147"

\* the branch the worker takes on what the call gave (lines 127-137, 152)
AfterCall(call) ==
  IF call.outcome # "ok" \/ call.result.status = "failed" THEN "line_155"
  ELSE IF call.result.status = "pending_approval" THEN "line_139"
  ELSE "line_147"

\* lines 116-137: the call of the Modal endpoint, which returns or raises
CallModal ==
  /\ worker = "line_116"
  /\ \E call \in ModalCalls :
       /\ modal' = call
       /\ worker' = AfterCall(call)
  /\ UNCHANGED << jobs, approver, completer, reader, others >>

\* lines 142-143: the frame lists of the result
WorkerWritesFrames ==
  /\ \E w \in { << "line_142", "selected_frames", "line_143" >>,
                << "line_143", "rejected_frames", "returned" >> } :
       /\ worker = w[1]
       /\ SetJob(w[2], modal.result[w[2]])
       /\ worker' = w[3]
  /\ UNCHANGED << modal, approver, completer, reader, others >>

\* line 150: jobs[job_id]['result'] = result
WorkerWritesResult ==
  /\ worker = "line_150"
  /\ SetJob("result", modal.result)
  /\ worker' = "returned"
  /\ UNCHANGED << modal, approver, completer, reader, others >>

\* the steps of the worker thread
process_with_modal ==
  \/ WorkerWritesText
  \/ WorkerWritesProgress
  \/ CallModal
  \/ WorkerWritesFrames
  \/ WorkerWritesResult

\* lines 79-84: approve_job_frames(job_id, count), called by a request
ApproveCalled ==
  /\ approver.pc = "idle"
  /\ \E count \in Counts :
       approver' = [ pc |-> IF JobId \in DOMAIN jobs THEN "line_82" ELSE "idle",
                     count |-> count ]
  /\ UNCHANGED << jobs, worker, modal, completer, reader, others >>

ApproveWrites ==
  /\ \/ /\ approver.pc = "line_82"
        /\ SetJob("status", "completed")
        /\ approver' = [ approver EXCEPT !.pc = "line_83" ]
     \/ /\ approver.pc = "line_83"
        /\ SetJob("message", "Approved frames")
        /\ approver' = [ approver EXCEPT !.pc = "line_84" ]
     \/ /\ approver.pc = "line_84"
        /\ SetJob("approved_count", approver.count)
        /\ approver' = [ approver EXCEPT !.pc = "idle" ]
  /\ UNCHANGED << worker, modal, completer, reader, others >>

\* lines 87-91: complete_job(job_id), called by a request
CompleteCalled ==
  /\ completer = "idle"
  /\ JobId \in DOMAIN jobs
  /\ completer' = "line_90"
  /\ UNCHANGED << jobs, worker, modal, approver, reader, others >>

CompleteWrites ==
  /\ \/ /\ completer = "line_90"
        /\ SetJob("status", "completed")
        /\ completer' = "line_91"
     \/ /\ completer = "line_91"
        /\ SetJob("message", "Processing complete")
        /\ completer' = "idle"
  /\ UNCHANGED << worker, modal, approver, reader, others >>

\* src/app/routes.py, get_pending_frames: job = get_job_status(job_id) is
\* the stored dict itself; its status is read first
ReaderReadsStatus ==
  /\ reader.pc \in {"idle", "answered"}
  /\ JobId \in DOMAIN jobs
  /\ reader' = [ pc |-> IF jobs[JobId].status = "pending_approval"
                          THEN "selected" ELSE "idle",
                 status |-> jobs[JobId].status,
                 selected_frames |-> << >>, rejected_frames |-> << >> ]
  /\ UNCHANGED << jobs, worker, modal, approver, completer, others >>

\* then job.get('selected_frames') and job.get('rejected_frames')
ReaderReadsFrames ==
  /\ \/ /\ reader.pc = "selected"
        /\ reader' = [ reader EXCEPT !.pc = "rejected",
                         !.selected_frames = jobs[JobId].selected_frames ]
     \/ /\ reader.pc = "rejected"
        /\ reader' = [ reader EXCEPT !.pc = "answered",
                         !.rejected_frames = jobs[JobId].rejected_frames ]
  /\ UNCHANGED << jobs, worker, modal, approver, completer, others >>

NextJobs ==
  \/ start_video_processing
  \/ process_with_modal
  \/ ApproveCalled
  \/ ApproveWrites
  \/ CompleteCalled
  \/ CompleteWrites
  \/ ReaderReadsStatus
  \/ ReaderReadsFrames

SpecJobs == InitJobs /\ [][NextJobs]_vars

\* every thread that can run does run; the call of the endpoint ends
SpecJobsFair == SpecJobs /\ WF_vars(process_with_modal)

\* ------------------------------------------------------------------ claims
\* positions of the scenes of the run that come after the current one
LaterScenes == { k \in 1..Len(valid_scenes) : k > scene_idx + 1 }
SamplableLater ==
  \E k \in LaterScenes :
    valid_scenes[k].end - valid_scenes[k].start >= MinSceneFrames

\* C1, as stated: the result of extract_smart_keyframes has at most
\* max_frames selected frames, for every max_frames value.
C1_CapForEveryMaxFrames ==
  pc = "done" => Len(selected_frames) <= max_frames

\* C2: once len(selected) >= max_frames holds after a scene has been
\* processed, the run takes no further step: no later scene is visited and
\* nothing is added to selected, rejected or stats.  A scene counts as
\* processed when it reaches the cap test of lines 331-333 (checked); a
\* scene skipped at line 228 does not.
C2_NoStepAfterCap ==
  [][ ~(checked > 0 /\ Len(selected_frames) >= max_frames) ]_vars

\* C2, witness: the run stopped at the cap before a later scene that could
\* have been sampled.
C2_HaltedBeforeLaterScene ==
  /\ pc = "done" /\ checked > 0 /\ max_frames = 1
  /\ Len(selected_frames) >= max_frames
  /\ SamplableLater

\* the candidates whose scene has been dealt with
Settled(w) == pc = "done" \/ (pc \in {"loop", "sampling"} /\ w.scene_idx < scene_idx)
SelectedOf(w) ==
  { k \in 1..Len(selected_frames) : files[selected_frames[k].path] = w.path }
RejectedOf(w) ==
  { k \in 1..Len(rejected_frames) : files[rejected_frames[k].path] = w.path }

\* C3: every candidate that was decoded and written is, once its scene is
\* dealt with, the image of exactly one entry of selected and rejected
\* together; a frame the quality gate refuses is rejected with the gate's
\* reason, any other rejected frame with not_sharpest or duplicate.
C3_WrittenFramesPartitioned ==
  \A n \in 1..Len(written) :
    LET w == written[n]
        verdict == is_bad_frame(w.frame, quality_mode)
    IN Settled(w) =>
         /\ Cardinality(SelectedOf(w)) + Cardinality(RejectedOf(w)) = 1
         /\ verdict[1] => SelectedOf(w) = {}
         /\ \A k \in RejectedOf(w) :
              IF verdict[1]
                THEN rejected_frames[k].reason = verdict[2]
                ELSE rejected_frames[k].reason \in {"not_sharpest", "duplicate"}

\* C3, witness: a scene gave three written candidates, one refused by the
\* gate, one beaten by a sharper frame, one selected.
C3_ThreeWaysOut ==
  /\ pc = "done" /\ Len(written) = 3 /\ Len(selected_frames) = 1
  /\ Len(rejected_frames) = 2
  /\ { rejected_frames[k].reason : k \in 1..2 } = {"black", "not_sharpest"}

\* C4: no two entries of selected have the same shot.
C4_OneSelectedPerShot ==
  \A i, j \in 1..Len(selected_frames) :
    i # j => << selected_frames[i].scene_start, selected_frames[i].scene_end >>
             # << selected_frames[j].scene_start, selected_frames[j].scene_end >>

\* C4, witness: two scenes each gave a selected frame.
C4_TwoShotsSelected ==
  pc = "done" /\ Len(selected_frames) = 2 /\ Len(written) = 6

\* the hash computed in this step is a duplicate of a seen hash
JudgedDuplicate ==
  /\ Len(hashed') = Len(hashed) + 1
  /\ is_duplicate(hashed'[Len(hashed')].hash, seen_hashes, phash_threshold)

\* C5: when the winner of a scene is judged a duplicate, it becomes the last
\* rejected entry, with reason duplicate and the scene's bounds, the
\* duplicate count grows by one, and selected and the seen hashes stay as
\* they were (nothing is promoted in its place).
C5_DuplicateWinnerRejected ==
  [][ JudgedDuplicate =>
        /\ selected_frames' = selected_frames
        /\ seen_hashes' = seen_hashes
        /\ stats'.rejected["duplicate"] = stats.rejected["duplicate"] + 1
        /\ Len(rejected_frames') > Len(rejected_frames)
        /\ LET last == rejected_frames'[Len(rejected_frames')] IN
             /\ last.reason = "duplicate"
             /\ files'[last.path] = best_path
             /\ last.scene_start = scene.start
             /\ last.scene_end = scene.end ]_vars

\* C5, witness: a duplicate winner was rejected although its scene had
\* another surviving candidate, which was not promoted.
C5_DuplicateWithRunnerUp ==
  /\ pc = "loop"
  /\ Len(selected_frames) = 1
  /\ \E k, m \in 1..Len(rejected_frames) :
       /\ rejected_frames[k].reason = "duplicate"
       /\ rejected_frames[m].reason = "not_sharpest"
       /\ rejected_frames[m].scene_start = rejected_frames[k].scene_start

\* the hash log's record of a rejected entry's image
HashRecordOf(e) ==
  { n \in 1..Len(hashed) : hashed[n].path = files[e.path] }

\* C6: the hashes of any two selected frames, when neither is None, are at
\* distance >= phash_threshold, and every frame rejected as duplicate is
\* at distance < phash_threshold from a frame selected before it.
C6_SelectedApartDuplicatesNear ==
  /\ Len(seen_hashes) = Len(selected_frames)
  /\ \A i, j \in 1..Len(seen_hashes) :
       (i # j /\ seen_hashes[i] # NoHash /\ seen_hashes[j] # NoHash)
         => HashDistance(seen_hashes[i], seen_hashes[j]) >= phash_threshold
  /\ \A k \in 1..Len(rejected_frames) :
       rejected_frames[k].reason = "duplicate" =>
         /\ HashRecordOf(rejected_frames[k]) # {}
         /\ \A n \in HashRecordOf(rejected_frames[k]) :
              /\ hashed[n].hash # NoHash
              /\ \E i \in 1..hashed[n].seen :
                   /\ seen_hashes[i] # NoHash
                   /\ HashDistance(hashed[n].hash, seen_hashes[i])
                        < phash_threshold

\* C6, witness: under strict, a winner at distance 3 from the selected
\* frame was rejected as duplicate.
C6_DistanceThreeUnderStrict ==
  /\ quality_mode = "strict"
  /\ Len(selected_frames) = 1
  /\ \E k \in 1..Len(rejected_frames) :
       /\ rejected_frames[k].reason = "duplicate"
       /\ \E n \in HashRecordOf(rejected_frames[k]) :
            HashDistance(hashed[n].hash, seen_hashes[1]) = 3

\* the written candidates of the current scene that the gate let pass
Survivors ==
  { n \in 1..Len(written) :
      /\ written[n].scene_idx = scene_idx
      /\ ~is_bad_frame(written[n].frame, quality_mode)[1] }
LabelledNotSharpest(path) ==
  \E k \in 1..Len(rejected_in_scene) :
    /\ rejected_in_scene[k].path = path
    /\ rejected_in_scene[k].reason = "not_sharpest"

\* C7: when the samples of a scene are done and at least one candidate
\* passed the gate, the scene has a winner, the winner is a survivor of
\* the highest sharpness, and every other survivor is labelled not_sharpest.
C7_SharpestSurvivorWins ==
  (Finishing /\ Survivors # {}) =>
    /\ HasWinner
    /\ \E n \in Survivors :
         /\ written[n].path = best_path
         /\ \A m \in Survivors :
              measure_sharpness(written[m].frame)
                <= measure_sharpness(written[n].frame)
         /\ \A m \in Survivors \ {n} : LabelledNotSharpest(written[m].path)

\* the checks in the order of the claim, and whether frame f fails each
CheckOrder ==
  << "unreadable", "black", "solid_color", "text_only", "blurry",
     "low_contrast" >>
FailsCheck(f, preset, k) ==
  CASE k = 1 -> ~f.readable
    [] k = 2 -> FailsBlack(f, preset)
    [] k = 3 -> FailsVariance(f, preset)
    [] k = 4 -> FailsEdges(f, preset)
    [] k = 5 -> FailsBlur(f, preset)
    [] k = 6 -> FailsContrast(f, preset)
\* the checks that run before one raises (all six when none does)
ChecksRun(f) ==
  IF ~f.readable THEN {1}
  ELSE IF f.raise_at = 0 THEN 1..6 ELSE 1..f.raise_at
Failing(f, preset) == { k \in ChecksRun(f) : FailsCheck(f, preset, k) }
Earliest(S) == CHOOSE k \in S : \A j \in S : k <= j

\* C8: is_bad_frame reports the earliest failing check in the order
\* unreadable, black, solid_color, text_only, blurry, low_contrast, and the
\* frame is counted in stats under that reason only; a frame failing no
\* check is not bad and counted nowhere.
C8_EarliestFailingCheckReported ==
  pc = "returned" =>
    \A m \in QualityModes :
      LET failing == Failing(probe, PresetOf(m))
          counts == answer[m].stats.rejected
      IN IF failing = {}
           THEN /\ ~answer[m].is_bad
                /\ counts = stats.rejected
           ELSE /\ answer[m].is_bad
                /\ answer[m].reason = CheckOrder[Earliest(failing)]
                /\ answer[m].reason \in DOMAIN counts
                /\ \A r \in DOMAIN counts :
                     counts[r] = IF r = answer[m].reason THEN 1 ELSE 0

\* C8, witness: a frame failing the black, the blur and the contrast check
\* under medium was reported as black.
C8_SeveralChecksFail ==
  /\ pc = "returned"
  /\ probe.raise_at = 0
  /\ { 2, 5, 6 } \subseteq Failing(probe, PresetOf("medium"))
  /\ answer["medium"].reason = "black"

\* C9: a frame accepted under strict is accepted under medium, and a frame
\* accepted under medium is accepted under high.
C9_AcceptanceWidens ==
  pc = "returned" =>
    /\ ~answer["strict"].is_bad => ~answer["medium"].is_bad
    /\ ~answer["medium"].is_bad => ~answer["high"].is_bad

\* C9, witness: a frame with every check computed is refused under strict
\* and accepted under medium and high.
C9_RefusedOnlyUnderStrict ==
  /\ pc = "returned"
  /\ probe.readable /\ probe.raise_at = 0
  /\ answer["strict"].is_bad
  /\ ~answer["medium"].is_bad
  /\ ~answer["high"].is_bad

\* C10: a winner that is a duplicate under a higher phash_threshold is a
\* duplicate under every lower one (high 10, medium 8, strict 6).
C10_LowerThresholdStricter ==
  pc = "returned" =>
    /\ answer["high"] => answer["medium"]
    /\ answer["medium"] => answer["strict"]

\* the step writes a candidate one of whose checks raises before any check
\* has failed
CheckRaised ==
  /\ Len(written') = Len(written) + 1
  /\ LET w == written'[Len(written')] IN
       /\ w.frame.readable /\ w.frame.raise_at # 0
       /\ Failing(w.frame, PresetOf(quality_mode)) = {}

\* C11: a candidate one of whose quality checks raises is not rejected by
\* the gate: no stats counter changes, the scene's rejected list gets no
\* entry for it other than not_sharpest, and it is ranked by its measured
\* sharpness like any survivor (it becomes the best, or loses to the best
\* as not_sharpest).
C11_RaisingCheckFailsOpen ==
  [][ CheckRaised =>
        LET w == written'[Len(written')]
            sharpness == measure_sharpness(w.frame)
        IN /\ stats' = stats
           /\ \A k \in 1..Len(rejected_in_scene') :
                rejected_in_scene'[k].path = w.path
                  => rejected_in_scene'[k].reason = "not_sharpest"
           /\ IF sharpness > best_sharpness
                THEN best_path' = w.path /\ best_sharpness' = sharpness
                ELSE /\ UNCHANGED << best_path, best_sharpness >>
                     /\ Len(rejected_in_scene') = Len(rejected_in_scene) + 1
                     /\ rejected_in_scene'[Len(rejected_in_scene')].path
                          = w.path ]_vars

\* C11, witness: a frame whose histogram raised leads its scene.
C11_RaisingFrameLeads ==
  /\ pc = "sampling"
  /\ \E n \in 1..Len(written) :
       /\ written[n].frame.raise_at = 5
       /\ written[n].path = best_path

\* the frames of rejected whose image is the winner of hash record n
RejectedAsDuplicate(n) ==
  \E k \in 1..Len(rejected_frames) :
    /\ files[rejected_frames[k].path] = hashed[n].path
    /\ rejected_frames[k].reason = "duplicate"
\* the hashes other than None that were selected before hash record n
RealSeenBefore(n) ==
  { seen_hashes[i] : i \in { i \in 1..hashed[n].seen : seen_hashes[i] # NoHash } }
\* the winners hashed so far whose scene is finished
HashedAndSettled == { n \in 1..Len(hashed) : n < Len(hashed) \/ pc # "sampling" }

\* C12, as stated: a winner whose hash is None is never a duplicate, no later
\* winner is a duplicate because of it, and no None entry is stored in the
\* seen hashes.
C12_NoneNeverStored ==
  /\ \A n \in HashedAndSettled :
       RejectedAsDuplicate(n) <=>
         /\ hashed[n].hash # NoHash
         /\ \E h \in RealSeenBefore(n) :
              HashDistance(hashed[n].hash, h) < phash_threshold
  /\ \A i \in 1..Len(seen_hashes) : seen_hashes[i] # NoHash

\* C12, amended: a winner whose hash is None is never a duplicate and is
\* selected; its None is appended to the seen hashes, but a later winner is
\* a duplicate exactly when it is within phash_threshold of a hash other
\* than None selected before it.
C12_NoneStoredButSkipped ==
  /\ \A n \in HashedAndSettled :
       /\ RejectedAsDuplicate(n) <=>
            /\ hashed[n].hash # NoHash
            /\ \E h \in RealSeenBefore(n) :
                 HashDistance(hashed[n].hash, h) < phash_threshold
       /\ hashed[n].hash = NoHash =>
            /\ seen_hashes[hashed[n].seen + 1] = NoHash
            /\ files[selected_frames[hashed[n].seen + 1].path] = hashed[n].path

\* C12, witness: a winner was selected after a winner whose hash is None.
C12_SelectedAfterNone ==
  /\ Len(selected_frames) = 2
  /\ seen_hashes[1] = NoHash
  /\ seen_hashes[2] # NoHash

\* the mode names that are no key of QUALITY_PRESETS
UnknownModes == GateModes \ {"strict", "medium", "high"}

\* C13: under a mode name other than strict, medium and high, is_bad_frame
\* gives every frame the verdict, the reason and the count it gives under
\* medium, and the phash threshold used is 8, medium's.
C13_UnknownModeIsMedium ==
  pc = "returned" =>
    \A m \in UnknownModes :
      /\ answer[m] = answer["medium"]
      /\ PresetOf(m).phash_threshold = 8
      /\ PresetOf(m) = QUALITY_PRESETS["medium"]

\* C13, witness: a frame that strict refuses and high accepts got medium's
\* verdict under every unknown name.
C13_UnknownNamesJudged ==
  /\ pc = "returned"
  /\ answer["strict"].is_bad
  /\ ~answer["medium"].is_bad
  /\ \A m \in UnknownModes : ~answer[m].is_bad
  /\ Cardinality(UnknownModes) = 3

\* the count stats holds for reason r (0 without the key) and the number of
\* entries of rejected with reason r
StatOf(r) == IF r \in DOMAIN stats.rejected THEN stats.rejected[r] ELSE 0
RejectedWith(r) ==
  Cardinality({ k \in 1..Len(rejected_frames) : rejected_frames[k].reason = r })
GateReasons == { "black", "solid_color", "text_only", "blurry", "low_contrast" }

\* C14, as stated: in the result, for each of the six quality reasons,
\* not_sharpest and duplicate, stats holds the number of rejected entries
\* with that reason.
C14_StatsCountEveryReason ==
  pc = "done" =>
    \A r \in GateReasons \cup {"unreadable", "not_sharpest", "duplicate"} :
      StatOf(r) = RejectedWith(r)

\* C14, amended: in the result, stats holds the number of rejected entries
\* for black, solid_color, text_only, blurry, low_contrast and duplicate;
\* not_sharpest has no counter, and the unreadable counter is at least the
\* number of unreadable entries (a frame whose file was never created is
\* counted and has no entry).
C14_StatsCountGateAndDuplicate ==
  pc = "done" =>
    /\ \A r \in GateReasons \cup {"duplicate"} :
         r \in DOMAIN stats.rejected /\ stats.rejected[r] = RejectedWith(r)
    /\ "not_sharpest" \notin DOMAIN stats.rejected
    /\ StatOf("unreadable") >= RejectedWith("unreadable")

\* C14, witness: a result whose rejected list has a gate rejection, a
\* duplicate and a not_sharpest entry.
C14_MixedRejections ==
  /\ pc = "done"
  /\ RejectedWith("duplicate") = 1
  /\ RejectedWith("not_sharpest") >= 1
  /\ \E r \in GateReasons : RejectedWith(r) >= 2

ReasonEnum ==
  { "unreadable", "black", "solid_color", "text_only", "blurry",
    "low_contrast", "not_sharpest", "duplicate", "check_error" }
ReasonsOf(entries) == { entries[k].reason : k \in 1..Len(entries) }

\* C15: every entry of rejected, and of the current scene's rejected list,
\* has a reason that is one of unreadable, black, solid_color, text_only,
\* blurry, low_contrast, not_sharpest, duplicate, check_error.
C15_ReasonsFromEnum ==
  /\ ReasonsOf(rejected_frames) \subseteq ReasonEnum
  /\ ReasonsOf(rejected_in_scene) \subseteq ReasonEnum

\* C15, witness: a result whose rejected entries carry four different
\* reasons, duplicate among them.
C15_FourReasons ==
  /\ pc = "done"
  /\ Cardinality(ReasonsOf(rejected_frames)) >= 4
  /\ "duplicate" \in ReasonsOf(rejected_frames)

\* shot s lasts less than 0.3 s: (end - start) / fps < 3 / 10
BelowMinDuration(s) == 10 * (s.end - s.start) < 3 * fps
ShotOf(e) == [ start |-> e.scene_start, end |-> e.scene_end ]
Shots(list) == { list[k] : k \in 1..Len(list) }
\* line 213 does not thin the list out
NotStrided ==
  Cardinality({ k \in 1..Len(scenes) : ~BelowMinDuration(scenes[k]) })
    <= max_frames * 2

\* C20: once the shots are filtered, no valid shot lasts less than
\* min_scene_duration, no entry of selected or rejected and no written
\* candidate belongs to such a shot, and stats counts the valid shots only;
\* unless the list is thinned out afterwards, every shot that lasts
\* min_scene_duration or more is a valid shot.
C20_ShortShotsDropped ==
  pc \in {"loop", "sampling", "done"} =>
    /\ \A s \in Shots(valid_scenes) : ~BelowMinDuration(s) /\ s \in Shots(scenes)
    /\ \A e \in Shots(selected_frames) \cup Shots(rejected_frames) :
         ~BelowMinDuration(ShotOf(e)) /\ ShotOf(e) \in Shots(valid_scenes)
    /\ \A n \in 1..Len(written) :
         ~BelowMinDuration(valid_scenes[written[n].scene_idx + 1])
    /\ stats.total_scenes = Len(valid_scenes)
    /\ NotStrided =>
         \A s \in Shots(scenes) : ~BelowMinDuration(s) => s \in Shots(valid_scenes)

\* C20, witness: at 10 fps a shot of 0.2 s was dropped and a shot of exactly
\* 0.3 s was kept and gave a selected frame.
C20_BoundaryShotKept ==
  /\ pc = "done" /\ fps = 10
  /\ \E s \in Shots(scenes) : s.end - s.start = 2
  /\ Len(selected_frames) = 1
  /\ selected_frames[1].scene_end - selected_frames[1].scene_start = 3

\* the reasons a run reports
RunErrors == { run_results.errors[i] : i \in DOMAIN run_results.errors }
\* scene detection has run and handed back no scene
DetectedNothing == "detect" \in stages /\ scenes = << >>

\* C16: when scene detection yields no scene, process_video has returned
\* status failed with the error "No scenes" and no frame, never
\* pending_approval, and neither frame extraction nor upload was started.
C16_NoScenesFailsRun ==
  DetectedNothing =>
    /\ pc = "run_done"
    /\ run_results.status = "failed"
    /\ run_results.errors = << "No scenes" >>
    /\ run_results.scenes = 0
    /\ run_results.selected_frames = << >>
    /\ run_results.rejected_frames = << >>
    /\ stages \cap {"extract", "upload"} = {}
    /\ frame_result = NoResult /\ futures = {}

\* C16 witness: a video that decodes and has no cut has failed its run
C16_RunWithoutCuts ==
  /\ DetectedNothing
  /\ detection = "no_cuts"
  /\ run_results.status = "failed"

\* C17: a run whose video could not be decoded during scene detection has
\* failed with a reason other than "No scenes", the reason reported when the
\* video decodes and no scene is found.
C17_UndecodableReasonDistinct ==
  ("detect" \in stages /\ detection = "undecodable") =>
    /\ run_results.status = "failed"
    /\ run_results.errors # << >>
    /\ "No scenes" \notin RunErrors

\* extract_smart_keyframes has returned its two lists to process_video
ExtractionReturned == "extract" \in stages /\ pc # "raised"

\* C18 as stated: a run whose extraction returned an empty selected list ends
\* in status failed with a reason, never in pending_approval.
C18_NoSelectedFailsRun ==
  (ExtractionReturned /\ frame_result.selected = << >> /\ pc = "run_done") =>
    /\ run_results.status = "failed"
    /\ run_results.errors # << >>

\* C18: when the extraction returns no frame at all, selected or rejected,
\* the run has ended in status failed with "No frames extracted" and no
\* upload was started; when it returns rejected frames only, the run does
\* not fail: it uploads them and ends in pending_approval with no selected
\* frame.
C18_NoFramesFailsRun ==
  ExtractionReturned =>
    /\ NoFrames(frame_result.selected, frame_result.rejected) =>
         /\ pc = "run_done"
         /\ run_results.status = "failed"
         /\ run_results.errors = << "No frames extracted" >>
         /\ "upload" \notin stages
    /\ (frame_result.selected = << >> /\ frame_result.rejected # << >>) =>
         /\ run_results.status # "failed"
         /\ run_results.errors = << >>
         /\ pc = "run_done" =>
              /\ run_results.status = "pending_approval"
              /\ run_results.selected_frames = << >>
              /\ "upload" \in stages

\* C18 witness: shots were found and the extraction returned no frame
C18_NothingExtracted ==
  /\ ExtractionReturned
  /\ scenes # << >>
  /\ NoFrames(frame_result.selected, frame_result.rejected)
  /\ run_results.status = "failed"

\* the download did not bring the video: an error result, an HTTP error
\* status, a network exception or a timeout
AcquisitionFailed ==
  acquired \in {"ytdlp_error", "ytdlp_silent", "ytdlp_timeout",
                "http_status", "http_exception"}

\* C19: whenever the video acquisition fails, the run has ended with status
\* failed and the error recorded in errors, and scene detection, frame
\* extraction and upload were never started.
C19_FailedDownloadFailsRun ==
  AcquisitionFailed =>
    /\ pc = "run_done"
    /\ run_results.status = "failed"
    /\ run_results.errors # << >>
    /\ stages \subseteq {"download"}

\* the positions 0, N, 2N, ... of a list of n shots
StridePositions(n, N) == { p \in 0..(n - 1) : \E k \in 0..n : p = k * N }
\* the shots of seq at the given positions, in their original order
ShotsAt(seq, positions) ==
  LET at(j) == CHOOSE p \in positions :
                 Cardinality({ q \in positions : q < p }) = j - 1
  IN [ j \in 1..Cardinality(positions) |-> seq[at(j) + 1] ]
\* the shots the extraction is to work on, by the stride rule
StrideRule(valid, cap) ==
  IF Len(valid) > 2 * cap
    THEN IF cap = 0 THEN << >>
         ELSE ShotsAt(valid, StridePositions(Len(valid),
                                             PyFloorDiv(Len(valid), cap)))
    ELSE valid

\* C21: the extraction never raises on its shot list, and once the list is
\* set up it holds exactly the valid shots at positions 0, N, 2N, ... with
\* N = floor(len(valid) / max_frames), in their original order, when there
\* are more than 2 x max_frames valid shots, and every valid shot otherwise.
C21_EveryNthShotKept ==
  /\ ~(pc = "raised" /\ stats.rejected = << >>)
  /\ pc \in {"loop", "sampling", "done"} =>
       valid_scenes = StrideRule(SelectSeq(scenes, LongEnough), max_frames)

\* the sampler has returned
Sampled == pc = "returned" /\ DOMAIN probe = {"scene", "samples_per_scene"}
\* start + (0.2 + 0.3*i) * duration, in tenths of a frame
OffsetTime(s, i) == 10 * s.start + (2 + 3 * i) * (s.end - s.start)
\* the timestamps of i in 0..n-1 that lie strictly before the shot end
TimesBeforeEnd(s, n) ==
  { OffsetTime(s, i) : i \in { i \in 0..(n - 1) : OffsetTime(s, i) < 10 * s.end } }

\* C22: for a shot of positive duration and a count n >= 0 the sampler yields,
\* in increasing order, exactly the timestamps start + (0.2 + 0.3*i) * duration
\* of i in 0..n-1 that lie strictly before the shot end; count 3 yields 3
\* timestamps, and no timestamp is at or past the shot end.
C22_SamplerYieldsOffsetsBeforeEnd ==
  Sampled =>
    LET s == probe.scene
        n == probe.samples_per_scene
    IN /\ { answer[j] : j \in DOMAIN answer } = TimesBeforeEnd(s, n)
       /\ Len(answer) = Cardinality(TimesBeforeEnd(s, n))
       /\ \A j \in 1..(Len(answer) - 1) : answer[j] < answer[j + 1]
       /\ \A j \in DOMAIN answer : answer[j] < 10 * s.end
       /\ n = 3 => answer = << OffsetTime(s, 0), OffsetTime(s, 1),
                               OffsetTime(s, 2) >>

\* C22 witness: a count above 3, whose fourth offset is past the shot end
C22_FourthOffsetSkipped ==
  /\ Sampled
  /\ probe.samples_per_scene = 4
  /\ Len(answer) = 3

\* the place of an entry's shot in the processed shot sequence
PositionOf(e) == { k \in 1..Len(valid_scenes) : valid_scenes[k] = ShotOf(e) }

\* C23: the entries of selected are in the order of the processed shot
\* sequence, each from a later shot than the entry before it, and the seen
\* hashes are in that same order: the k-th is the hash computed for the k-th
\* selected frame, when k-1 hashes had been seen.
C23_SelectedInShotOrder ==
  pc \in {"loop", "sampling", "done"} =>
    /\ \A i \in 1..Len(selected_frames) :
         Cardinality(PositionOf(selected_frames[i])) = 1
    /\ \A i, j \in 1..Len(selected_frames) :
         i < j => \A p \in PositionOf(selected_frames[i]),
                     q \in PositionOf(selected_frames[j]) : p < q
    /\ Len(seen_hashes) = Len(selected_frames)
    /\ \A k \in 1..Len(selected_frames) :
         \E n \in 1..Len(hashed) :
           /\ hashed[n].path = files[selected_frames[k].path]
           /\ hashed[n].hash = seen_hashes[k]
           /\ hashed[n].seen = k - 1

\* C23 witness: two shots gave selected frames with different hashes
C23_TwoHashesInOrder ==
  /\ pc = "done"
  /\ Len(selected_frames) = 2
  /\ seen_hashes[1] # seen_hashes[2]
  /\ selected_frames[1].scene_end <= selected_frames[2].scene_start

\* the frame submitted as upload idx, and whether it is a selected frame
SubmittedFrame(idx) ==
  IF idx < Len(frame_result.selected)
    THEN frame_result.selected[idx + 1]
    ELSE frame_result.rejected[idx - Len(frame_result.selected) + 1]
SubmittedAsSelected(idx) == idx < Len(frame_result.selected)
\* the upload whose url an entry carries
UploadOf(e) == e.url[2]
\* the entries of a list that carry the url of upload idx
EntriesOf(list, idx) == { k \in 1..Len(list) : UploadOf(list[k]) = idx }

\* C24: in whatever order the uploads complete, each entry of the uploaded
\* selected and rejected lists carries the shot bounds and the sharpness or
\* reason of the frame whose file went to the entry's url, every upload that
\* returned a url has exactly one entry, in the list of its kind, and the
\* returned result holds these two lists.
C24_EntriesMatchUploadedFrames ==
  pc \in {"run_uploading", "run_done"} /\ "upload" \in stages =>
    /\ \A k \in 1..Len(uploaded_selected) :
         LET e == uploaded_selected[k]
             f == SubmittedFrame(UploadOf(e))
         IN /\ UploadOf(e) \in uploaded_idx
            /\ SubmittedAsSelected(UploadOf(e))
            /\ e.scene_start = f.scene_start /\ e.scene_end = f.scene_end
            /\ e.sharpness = f.sharpness
    /\ \A k \in 1..Len(uploaded_rejected) :
         LET e == uploaded_rejected[k]
             f == SubmittedFrame(UploadOf(e))
         IN /\ UploadOf(e) \in uploaded_idx
            /\ ~SubmittedAsSelected(UploadOf(e))
            /\ e.scene_start = f.scene_start /\ e.scene_end = f.scene_end
            /\ e.reason = f.reason
    /\ \A idx \in uploaded_idx :
         /\ Cardinality(EntriesOf(uploaded_selected, idx))
              = (IF SubmittedAsSelected(idx) THEN 1 ELSE 0)
         /\ Cardinality(EntriesOf(uploaded_rejected, idx))
              = (IF SubmittedAsSelected(idx) THEN 0 ELSE 1)
    /\ pc = "run_done" =>
         /\ run_results.selected_frames = uploaded_selected
         /\ run_results.rejected_frames = uploaded_rejected

\* C24 witness: a selected frame and a rejected frame of different shots
\* were both uploaded, and each is in the returned list of its kind
C24_BothKindsUploaded ==
  /\ pc = "run_done"
  /\ run_results.status = "pending_approval"
  /\ Len(run_results.selected_frames) = 1
  /\ Len(run_results.rejected_frames) = 1
  /\ futures = {}
  /\ frame_result.rejected[1].scene_start # frame_result.selected[1].scene_start

\* C25: in whatever order the uploads complete, the selected_frames list
\* process_video returns is in the shot order of the extraction result: its
\* entries follow each other as their frames do in the extraction's selected
\* list.
C25_ReturnedSelectedInShotOrder ==
  (pc = "run_done" /\ run_results.status = "pending_approval") =>
    \A i, j \in 1..Len(run_results.selected_frames) :
      i < j => UploadOf(run_results.selected_frames[i])
                 < UploadOf(run_results.selected_frames[j])

\* the job is in the store
Stored == JobId \in DOMAIN jobs

\* C26: whenever the store shows the job in status pending_approval, and
\* whenever a reader that saw this status goes on to read the frame lists,
\* the lists are those the processor returned.
C26_FramesWrittenBeforeStatus ==
  /\ (Stored /\ jobs[JobId].status = "pending_approval") =>
       /\ jobs[JobId].selected_frames = modal.result.selected_frames
       /\ jobs[JobId].rejected_frames = modal.result.rejected_frames
  /\ reader.pc = "answered" =>
       /\ reader.selected_frames = modal.result.selected_frames
       /\ reader.rejected_frames = modal.result.rejected_frames

\* C27: once the job's status in the store is completed or failed, no step
\* of the worker thread, of approve_job_frames or of complete_job changes it.
C27_TerminalStatusKept ==
  [][ (Stored /\ jobs[JobId].status \in {"completed", "failed"})
        => jobs'[JobId].status = jobs[JobId].status ]_vars

\* the statuses a job has once its processing has ended
Settling == {"pending_approval", "completed", "failed"}

\* C28: every job created is in the end out of the states queued and
\* processing for good, its worker thread having returned with the status
\* pending_approval, completed or failed in the store; and whenever the call
\* timed out or anything else raised, the worker sets the status failed.
C28_JobLeavesQueuedAndProcessing ==
  /\ Stored ~> [](worker = "returned" /\ jobs[JobId].status \in Settling)
  /\ (worker = "line_155") ~> (worker = "line_156" /\ jobs[JobId].status = "failed")

\* C28 witness: the call timed out and the job ended failed
C28_TimedOutJobFailed ==
  /\ Stored
  /\ modal.outcome = "timeout"
  /\ worker = "returned"
  /\ jobs[JobId].status = "failed"

AtShortShot ==
  /\ pc = "loop"
  /\ scene_idx < Len(valid_scenes)
  /\ ~BelowMinDuration(valid_scenes[scene_idx + 1])
  /\ valid_scenes[scene_idx + 1].end - valid_scenes[scene_idx + 1].start < 3

\* C30: a valid shot whose frame count is below 3 is skipped without
\* sampling: the step leaves selected, rejected, stats, the seen hashes and
\* the files as they were, decodes no frame, and the loop goes on with the
\* next shot.
C30_ShortShotSkipped ==
  [][ AtShortShot =>
        /\ UNCHANGED << selected_frames, rejected_frames, stats, seen_hashes,
                        files, written, hashed >>
        /\ pc' = "loop"
        /\ scene_idx' = scene_idx + 1 ]_vars

\* C30 witness: a shot of 2 frames was passed over and a later shot sampled
C30_SampledAfterShortShot ==
  /\ pc = "sampling"
  /\ scene_idx > 0
  /\ \E k \in 1..scene_idx :
       /\ ~BelowMinDuration(valid_scenes[k])
       /\ valid_scenes[k].end - valid_scenes[k].start < 3
  /\ selected_frames = << >> /\ rejected_frames = << >>

====
